---- MODULE Spec2Model ----
(***************************************************************************)
(* regionx: the Python binding (src/lib.rs) over the spherical regions of  *)
(* the astroxide crate.  The binding's three classes (Polygon, Aperture,   *)
(* Anulus), their constructors and their is_inside / locate_all methods    *)
(* are modelled from src/lib.rs.  The region engine they call              *)
(* (SphericalPolygon, SphericalAperture, SphericalAnulus) is not part of   *)
(* the source tree; it is modelled from the design document, within the    *)
(* types the binding's code fixes for it (a three-variant PointLocation,   *)
(* an unwrap-able polygon constructor, infallible-by-type cap              *)
(* constructors and batch queries).                                        *)
(*                                                                         *)
(* Angles are integers in units of half a degree (720 units = 360 deg).    *)
(* f64 values in [-2, 2] are fixed-point integers scaled by Scale.         *)
(***************************************************************************)
EXTENDS Integers, Sequences, FiniteSets, TLC

\* ------------------------------------------------------------------------
\* Bounds of the model
\* ------------------------------------------------------------------------

\* longest batch passed to locate_all
MaxLen == 2

\* number of concurrent callers in SpecConc
NCallers == 2

\* ------------------------------------------------------------------------
\* Fixed-point arithmetic standing for f64
\* ------------------------------------------------------------------------

Scale == 1000000

Abs(x) == IF x < 0 THEN -x ELSE x

Sgn(x) == IF x < 0 THEN -1 ELSE IF x > 0 THEN 1 ELSE 0

\* |a| * |b| / Scale without leaving 32 bits, for |a|, |b| <= 2 * Scale
MulAbs(a, b) ==
    LET a1 == a \div 1000
        a0 == a % 1000
        b1 == b \div 1000
        b0 == b % 1000
    IN  a1 * b1 + ((a1 * b0 + a0 * b1 + ((a0 * b0) \div 1000)) \div 1000)

Mul(a, b) == Sgn(a) * Sgn(b) * MulAbs(Abs(a), Abs(b))

\* Scale * sin(u / 2 degrees) for u = 0 .. 180, entry u + 1
SinTab ==
  <<
    0, 8727, 17452, 26177, 34899, 43619, 52336, 61049, 69756, 78459,
    87156, 95846, 104528, 113203, 121869, 130526, 139173, 147809, 156434, 165048,
    173648, 182236, 190809, 199368, 207912, 216440, 224951, 233445, 241922, 250380,
    258819, 267238, 275637, 284015, 292372, 300706, 309017, 317305, 325568, 333807,
    342020, 350207, 358368, 366501, 374607, 382683, 390731, 398749, 406737, 414693,
    422618, 430511, 438371, 446198, 453990, 461749, 469472, 477159, 484810, 492424,
    500000, 507538, 515038, 522499, 529919, 537300, 544639, 551937, 559193, 566406,
    573576, 580703, 587785, 594823, 601815, 608761, 615661, 622515, 629320, 636078,
    642788, 649448, 656059, 662620, 669131, 675590, 681998, 688355, 694658, 700909,
    707107, 713250, 719340, 725374, 731354, 737277, 743145, 748956, 754710, 760406,
    766044, 771625, 777146, 782608, 788011, 793353, 798636, 803857, 809017, 814116,
    819152, 824126, 829038, 833886, 838671, 843391, 848048, 852640, 857167, 861629,
    866025, 870356, 874620, 878817, 882948, 887011, 891007, 894934, 898794, 902585,
    906308, 909961, 913545, 917060, 920505, 923880, 927184, 930418, 933580, 936672,
    939693, 942641, 945519, 948324, 951057, 953717, 956305, 958820, 961262, 963630,
    965926, 968148, 970296, 972370, 974370, 976296, 978148, 979925, 981627, 983255,
    984808, 986286, 987688, 989016, 990268, 991445, 992546, 993572, 994522, 995396,
    996195, 996917, 997564, 998135, 998630, 999048, 999391, 999657, 999848, 999962,
    1000000 >>

Sin(u) ==
    LET v == u % 720
    IN  IF v <= 180 THEN SinTab[v + 1]
        ELSE IF v <= 360 THEN SinTab[360 - v + 1]
        ELSE IF v <= 540 THEN -SinTab[v - 360 + 1]
        ELSE -SinTab[720 - v + 1]

Cos(u) == Sin(u + 180)

\* ------------------------------------------------------------------------
\* CoordinateModel and AngularMetric of the region engine
\* ------------------------------------------------------------------------

\* a coordinate is <<ra, dec>>; its unit vector is <<x, y, z>>
ToVec(c) ==
    << Mul(Cos(c[2]), Cos(c[1])), Mul(Cos(c[2]), Sin(c[1])), Sin(c[2]) >>

Dot(a, b) == Mul(a[1], b[1]) + Mul(a[2], b[2]) + Mul(a[3], b[3])

Cross(a, b) ==
    << Mul(a[2], b[3]) - Mul(a[3], b[2]),
       Mul(a[3], b[1]) - Mul(a[1], b[3]),
       Mul(a[1], b[2]) - Mul(a[2], b[1]) >>

\* Scale * (1 - cos u) = 2 * Scale * haversine(u)
Hav2(u) == Scale - Cos(u)

\* the angle in lo .. hi (within 0 .. 360) whose Hav2 is nearest to h
RECURSIVE ArcHav2(_, _, _)
ArcHav2(h, lo, hi) ==
    IF lo = hi THEN lo
    ELSE LET mid == (lo + hi) \div 2
         IN  IF 2 * h <= Hav2(mid) + Hav2(mid + 1)
             THEN ArcHav2(h, lo, mid)
             ELSE ArcHav2(h, mid + 1, hi)

\* great-circle separation of two coordinates, by the haversine formula
Separation(a, b) ==
    LET h == Hav2(a[2] - b[2])
             + Mul(Mul(Cos(a[2]), Cos(b[2])), Hav2(a[1] - b[1]))
    IN  ArcHav2(h, 0, 360)

\* the x in lo .. hi with x * x nearest below sq (fixed point square root)
RECURSIVE SqrtFix(_, _, _)
SqrtFix(sq, lo, hi) ==
    IF lo >= hi THEN lo
    ELSE LET mid == (lo + hi + 1) \div 2
         IN  IF Mul(mid, mid) <= sq
             THEN SqrtFix(sq, mid, hi)
             ELSE SqrtFix(sq, lo, mid - 1)

Norm(v) == SqrtFix(Dot(v, v), 0, 2 * Scale)

\* ------------------------------------------------------------------------
\* The region engine called by the binding (astroxide::regions)
\* ------------------------------------------------------------------------

\* the variants the binding's exhaustive matches name
PL_Inside == "PointLocation::Inside"

PL_Outside == "PointLocation::Outside"

PL_OnBoundary == "PointLocation::OnBoundary"

PointLocation == { PL_Inside, PL_Outside, PL_OnBoundary }

\* width of the boundary band, in half degrees
Epsilon == 1

Ok(v) == [ok |-> TRUE, val |-> v, err |-> "none"]

Fail(e) == [ok |-> FALSE, val |-> << >>, err |-> e]

SphericalAperture_new(ra, dec, radius) ==
    IF radius <= 0 \/ radius > 360
    THEN Fail("InvalidRadius")
    ELSE Ok([center |-> << ra, dec >>, radius |-> radius])

SphericalAperture_locate_point(ap, ra, dec) ==
    LET sep == Separation(ap.center, << ra, dec >>)
    IN  IF Abs(sep - ap.radius) <= Epsilon THEN PL_OnBoundary
        ELSE IF sep < ap.radius THEN PL_Inside
        ELSE PL_Outside

SphericalAnulus_new(ra, dec, inner, outer) ==
    IF inner < 0 \/ inner > 360 \/ outer < 0 \/ outer > 360
    THEN Fail("InvalidRadius")
    ELSE IF inner >= outer
    THEN Fail("InnerNotLessThanOuter")
    ELSE Ok([center |-> << ra, dec >>, inner |-> inner, outer |-> outer])

SphericalAnulus_locate_point(an, ra, dec) ==
    LET sep == Separation(an.center, << ra, dec >>)
    IN  IF Abs(sep - an.inner) <= Epsilon \/ Abs(sep - an.outer) <= Epsilon
        THEN PL_OnBoundary
        ELSE IF an.inner < sep /\ sep < an.outer THEN PL_Inside
        ELSE PL_Outside

\* vertex i of a closed polygon and its successor
NextIdx(i, n) == IF i = n THEN 1 ELSE i + 1

\* consecutive vertices that coincide or are antipodal
DegenerateEdge(a, b) ==
    LET sep == Separation(a, b) IN sep = 0 \/ sep = 360

\* the edge from a to b: end points, plane normal and the normal's length
MakeEdge(a, b) ==
    LET va == ToVec(a)
        vb == ToVec(b)
        n  == Cross(va, vb)
    IN  [a |-> va, b |-> vb, n |-> n, len |-> Norm(n)]

RECURSIVE SumVec(_, _)
SumVec(vs, i) ==
    IF i = 0 THEN << 0, 0, 0 >>
    ELSE LET r == SumVec(vs, i - 1)
             v == ToVec(vs[i])
         IN  << r[1] + v[1], r[2] + v[2], r[3] + v[3] >>

\* the fixed reference direction: the antipode of the vertex mean
Reference(vs) ==
    LET s == SumVec(vs, Len(vs))
        n == Len(vs)
    IN  << (0 - s[1]) \div n, (0 - s[2]) \div n, (0 - s[3]) \div n >>

SphericalPolygon_new(ra_verticies, dec_verticies) ==
    LET n  == Len(ra_verticies)
        vs == [i \in 1 .. n |-> << ra_verticies[i], dec_verticies[i] >>]
    IN  IF n < 3 THEN Fail("InsufficientVertices")
        ELSE IF \E i \in 1 .. n : DegenerateEdge(vs[i], vs[NextIdx(i, n)])
        THEN Fail("DegenerateEdge")
        ELSE Ok([verts |-> vs,
                 edges |-> [i \in 1 .. n |-> MakeEdge(vs[i], vs[NextIdx(i, n)])],
                 ref   |-> Reference(vs)])

Det(a, b, c) == Dot(Cross(a, b), c)

\* p within Epsilon of the edge's great circle and within its arc span
OnEdge(e, p) ==
    LET tol == Mul(Sin(Epsilon), e.len)
    IN  /\ Abs(Dot(e.n, p)) <= tol
        /\ Dot(Cross(e.a, p), e.n) >= 0 - tol
        /\ Dot(Cross(p, e.b), e.n) >= 0 - tol

\* the arcs a-b and c-d cross at an interior point of both
ArcsCross(a, b, c, d) ==
    LET s1 == Sgn(Det(a, c, b))
        s2 == Sgn(Det(c, b, d))
        s3 == Sgn(Det(b, d, a))
        s4 == Sgn(Det(d, a, c))
    IN  s1 # 0 /\ s1 = s2 /\ s2 = s3 /\ s3 = s4

NorthPole == << 0, 0, Scale >>

\* edges crossed by the reference path p -> north pole -> reference direction
Crossings(poly, p) ==
    Cardinality({ i \in 1 .. Len(poly.edges) :
                    ArcsCross(p, NorthPole, poly.edges[i].a, poly.edges[i].b) })
    + Cardinality({ i \in 1 .. Len(poly.edges) :
                    ArcsCross(NorthPole, poly.ref, poly.edges[i].a, poly.edges[i].b) })

SphericalPolygon_locate_point(poly, ra, dec) ==
    LET p == ToVec(<< ra, dec >>)
    IN  IF \E i \in 1 .. Len(poly.edges) : OnEdge(poly.edges[i], p)
        THEN PL_OnBoundary
        ELSE IF Crossings(poly, p) % 2 = 1 THEN PL_Inside
        ELSE PL_Outside

\* the batch query of each region: all or nothing
SphericalPolygon_locate_points(poly, ras, decs) ==
    IF Len(ras) # Len(decs) THEN Fail("LengthMismatch")
    ELSE Ok([i \in 1 .. Len(ras) |-> SphericalPolygon_locate_point(poly, ras[i], decs[i])])

SphericalAperture_locate_points(ap, ras, decs) ==
    IF Len(ras) # Len(decs) THEN Fail("LengthMismatch")
    ELSE Ok([i \in 1 .. Len(ras) |-> SphericalAperture_locate_point(ap, ras[i], decs[i])])

SphericalAnulus_locate_points(an, ras, decs) ==
    IF Len(ras) # Len(decs) THEN Fail("LengthMismatch")
    ELSE Ok([i \in 1 .. Len(ras) |-> SphericalAnulus_locate_point(an, ras[i], decs[i])])

\* ------------------------------------------------------------------------
\* The binding: PointResult and the three classes
\* ------------------------------------------------------------------------

PR_Inside == "PointResult::Inside"

PR_Outside == "PointResult::Outside"

PR_Edge == "PointResult::Edge"

PointResult == { PR_Inside, PR_Outside, PR_Edge }

\* outcome of a call into the binding: a returned value or a panic
Returned(v) == [status |-> "returned", val |-> v, err |-> "none"]

Panicked(e) == [status |-> "panicked", val |-> << >>, err |-> e]

NoRegion == [kind |-> "None"]

\* Polygon::new with unwrap_or_default in place of unwrap
Polygon_new_Default(ra_verticies, dec_verticies) ==
    LET polygon == SphericalPolygon_new(ra_verticies, dec_verticies)
    IN  Returned([kind |-> "Polygon",
                  polygon |-> IF polygon.ok THEN polygon.val
                              ELSE [verts |-> << >>, edges |-> << >>,
                                    ref |-> << 0, 0, 0 >>]])

\* Polygon::new: unwrap of the engine's result
Polygon_new(ra_verticies, dec_verticies) ==
    LET polygon == SphericalPolygon_new(ra_verticies, dec_verticies)
    IN  IF polygon.ok
        THEN Returned([kind |-> "Polygon", polygon |-> polygon.val])
        ELSE Panicked(polygon.err)

\* Aperture::new: the engine's constructor, called as is
Aperture_new(ra_center, dec_center, radius_deg) ==
    LET sph_app == SphericalAperture_new(ra_center, dec_center, radius_deg)
    IN  IF sph_app.ok
        THEN Returned([kind |-> "Aperture", aperture |-> sph_app.val])
        ELSE Panicked(sph_app.err)

\* Anulus::new building the region from the arguments whatever they are
Anulus_new_Unchecked(ra_center, dec_center, inner_radius, outer_radius) ==
    Returned([kind |-> "Anulus",
              anulus |-> [center |-> << ra_center, dec_center >>,
                          inner |-> inner_radius, outer |-> outer_radius]])

\* Anulus::new: the engine's constructor, called as is
Anulus_new(ra_center, dec_center, inner_radius, outer_radius) ==
    LET sph_app == SphericalAnulus_new(ra_center, dec_center, inner_radius, outer_radius)
    IN  IF sph_app.ok
        THEN Returned([kind |-> "Anulus", anulus |-> sph_app.val])
        ELSE Panicked(sph_app.err)

\* matches of a two-variant PointResult: OnBoundary reported as Inside
Polygon_is_inside_match_Merged(v) ==
    CASE v = PL_Inside -> PR_Inside
      [] v = PL_Outside -> PR_Outside
      [] v = PL_OnBoundary -> PR_Inside

Aperture_is_inside_match_Merged(v) ==
    CASE v = PL_OnBoundary -> PR_Inside
      [] v = PL_Inside -> PR_Inside
      [] v = PL_Outside -> PR_Outside

\* Inside and Outside arms exchanged
Anulus_is_inside_match_Swapped(v) ==
    CASE v = PL_OnBoundary -> PR_Edge
      [] v = PL_Inside -> PR_Outside
      [] v = PL_Outside -> PR_Inside

Anulus_locate_all_match_Merged(v) ==
    CASE v = PL_OnBoundary -> PR_Inside
      [] v = PL_Inside -> PR_Inside
      [] v = PL_Outside -> PR_Outside

\* the match of each of the six query methods
Polygon_is_inside_match(v) ==
    CASE v = PL_Inside -> PR_Inside
      [] v = PL_Outside -> PR_Outside
      [] v = PL_OnBoundary -> PR_Edge

Polygon_locate_all_match(v) ==
    CASE v = PL_Inside -> PR_Inside
      [] v = PL_Outside -> PR_Outside
      [] v = PL_OnBoundary -> PR_Edge

Aperture_is_inside_match(v) ==
    CASE v = PL_OnBoundary -> PR_Edge
      [] v = PL_Inside -> PR_Inside
      [] v = PL_Outside -> PR_Outside

Aperture_locate_all_match(v) ==
    CASE v = PL_OnBoundary -> PR_Edge
      [] v = PL_Inside -> PR_Inside
      [] v = PL_Outside -> PR_Outside

Anulus_is_inside_match(v) ==
    CASE v = PL_OnBoundary -> PR_Edge
      [] v = PL_Inside -> PR_Inside
      [] v = PL_Outside -> PR_Outside

Anulus_locate_all_match(v) ==
    CASE v = PL_OnBoundary -> PR_Edge
      [] v = PL_Inside -> PR_Inside
      [] v = PL_Outside -> PR_Outside

Polygon_is_inside(self, ra_point, dec_point) ==
    Polygon_is_inside_match(
        SphericalPolygon_locate_point(self.polygon, ra_point, dec_point))

Aperture_is_inside(self, ra_point, dec_point) ==
    Aperture_is_inside_match(
        SphericalAperture_locate_point(self.aperture, ra_point, dec_point))

Anulus_is_inside(self, ra_point, dec_point) ==
    Anulus_is_inside_match(
        SphericalAnulus_locate_point(self.anulus, ra_point, dec_point))

\* locate_all zipping the two vectors itself: the longer one is cut short
Polygon_locate_all_results_Zip(self, ra_points, dec_points) ==
    LET n == IF Len(ra_points) < Len(dec_points)
             THEN Len(ra_points) ELSE Len(dec_points)
    IN  Returned([i \in 1 .. n |->
            SphericalPolygon_locate_point(self.polygon, ra_points[i], dec_points[i])])

\* the first statement of each locate_all: the engine's batch query
Polygon_locate_all_results(self, ra_points, dec_points) ==
    LET results == SphericalPolygon_locate_points(self.polygon, ra_points, dec_points)
    IN  IF results.ok THEN Returned(results.val) ELSE Panicked(results.err)

Aperture_locate_all_results(self, ra_points, dec_points) ==
    LET results == SphericalAperture_locate_points(self.aperture, ra_points, dec_points)
    IN  IF results.ok THEN Returned(results.val) ELSE Panicked(results.err)

Anulus_locate_all_results(self, ra_points, dec_points) ==
    LET results == SphericalAnulus_locate_points(self.anulus, ra_points, dec_points)
    IN  IF results.ok THEN Returned(results.val) ELSE Panicked(results.err)

\* locations.insert(0, x)
Push_Front(locations, x) == << x >> \o locations

\* locations.push(x)
Push(locations, x) == Append(locations, x)

\* a receiver taken by value: the object is consumed by the call
Borrow_Consume(self) == NoRegion

\* the receiver of every query method is &self
Borrow(self) == self

\* ------------------------------------------------------------------------
\* State
\* ------------------------------------------------------------------------

VARIABLES
    region,   \* the region object held by Python, NoRegion before construction
    ctor,     \* the last constructor call and its outcome
    pc,       \* per caller: "idle", "loop" (inside locate_all's for) or "done"
    call      \* per caller: the query in progress or just finished

vars == << region, ctor, pc, call >>

Callers == 1 .. NCallers

NoCtor ==
    [class |-> "None", ra |-> << >>, dec |-> << >>, radii |-> << >>,
     status |-> "none", err |-> "none"]

NoCall ==
    [method |-> "none", ra |-> << >>, dec |-> << >>, results |-> << >>,
     locations |-> << >>, ret |-> << >>, status |-> "none", err |-> "none"]

Init ==
    /\ region = NoRegion
    /\ ctor = NoCtor
    /\ pc = [t \in Callers |-> "idle"]
    /\ call = [t \in Callers |-> NoCall]

\* ------------------------------------------------------------------------
\* Constructors
\* ------------------------------------------------------------------------

Construct(class, ras, decs, radii, out) ==
    /\ region = NoRegion
    /\ ctor' = [class |-> class, ra |-> ras, dec |-> decs, radii |-> radii,
                status |-> out.status, err |-> out.err]
    /\ region' = IF out.status = "returned" THEN out.val ELSE NoRegion
    /\ UNCHANGED << pc, call >>

New_Polygon(ra_verticies, dec_verticies) ==
    /\ region = NoRegion
    /\ Construct("Polygon", ra_verticies, dec_verticies, << >>,
                 Polygon_new(ra_verticies, dec_verticies))

New_Aperture(ra_center, dec_center, radius_deg) ==
    /\ region = NoRegion
    /\ Construct("Aperture", << ra_center >>, << dec_center >>, << radius_deg >>,
                 Aperture_new(ra_center, dec_center, radius_deg))

New_Anulus(ra_center, dec_center, inner_radius, outer_radius) ==
    /\ region = NoRegion
    /\ Construct("Anulus", << ra_center >>, << dec_center >>,
                 << inner_radius, outer_radius >>,
                 Anulus_new(ra_center, dec_center, inner_radius, outer_radius))

\* ------------------------------------------------------------------------
\* Queries
\* ------------------------------------------------------------------------

\* a single-point query runs to its return in one step
SinglePoint(t, kind, ra_point, dec_point, result) ==
    /\ region.kind = kind
    /\ pc[t] = "idle"
    /\ call' = [call EXCEPT ![t] =
                  [method |-> "is_inside", ra |-> << ra_point >>,
                   dec |-> << dec_point >>, results |-> << >>,
                   locations |-> << >>, ret |-> << result >>,
                   status |-> "returned", err |-> "none"]]
    /\ pc' = [pc EXCEPT ![t] = "done"]
    /\ region' = Borrow(region)
    /\ UNCHANGED ctor

Call_Polygon_is_inside(t, ra_point, dec_point) ==
    /\ region.kind = "Polygon"
    /\ SinglePoint(t, "Polygon", ra_point, dec_point,
                   Polygon_is_inside(region, ra_point, dec_point))

Call_Aperture_is_inside(t, ra_point, dec_point) ==
    /\ region.kind = "Aperture"
    /\ SinglePoint(t, "Aperture", ra_point, dec_point,
                   Aperture_is_inside(region, ra_point, dec_point))

Call_Anulus_is_inside(t, ra_point, dec_point) ==
    /\ region.kind = "Anulus"
    /\ SinglePoint(t, "Anulus", ra_point, dec_point,
                   Anulus_is_inside(region, ra_point, dec_point))

\* locate_all up to the for loop: the engine's batch query, then an empty
\* locations vector; a panic of the engine unwinds through the method
BatchBegin(t, kind, ra_points, dec_points, results) ==
    /\ region.kind = kind
    /\ pc[t] = "idle"
    /\ call' = [call EXCEPT ![t] =
                  [method |-> "locate_all", ra |-> ra_points, dec |-> dec_points,
                   results |-> results.val, locations |-> << >>, ret |-> << >>,
                   status |-> IF results.status = "returned"
                              THEN "running" ELSE "panicked",
                   err |-> results.err]]
    /\ pc' = [pc EXCEPT ![t] =
                IF results.status = "returned" THEN "loop" ELSE "done"]
    /\ region' = Borrow(region)
    /\ UNCHANGED ctor

Call_Polygon_locate_all(t, ra_points, dec_points) ==
    /\ region.kind = "Polygon"
    /\ BatchBegin(t, "Polygon", ra_points, dec_points,
                  Polygon_locate_all_results(region, ra_points, dec_points))

Call_Aperture_locate_all(t, ra_points, dec_points) ==
    /\ region.kind = "Aperture"
    /\ BatchBegin(t, "Aperture", ra_points, dec_points,
                  Aperture_locate_all_results(region, ra_points, dec_points))

Call_Anulus_locate_all(t, ra_points, dec_points) ==
    /\ region.kind = "Anulus"
    /\ BatchBegin(t, "Anulus", ra_points, dec_points,
                  Anulus_locate_all_results(region, ra_points, dec_points))

\* one iteration of "for result in results"
LoopPush(t, kind, pushed) ==
    /\ region.kind = kind
    /\ pc[t] = "loop"
    /\ call[t].results # << >>
    /\ call' = [call EXCEPT ![t].results = Tail(@),
                            ![t].locations = Push(@, pushed)]
    /\ region' = Borrow(region)
    /\ UNCHANGED << ctor, pc >>

Polygon_locate_all_push(t) ==
    /\ call[t].results # << >>
    /\ LoopPush(t, "Polygon", Polygon_locate_all_match(Head(call[t].results)))

Aperture_locate_all_push(t) ==
    /\ call[t].results # << >>
    /\ LoopPush(t, "Aperture", Aperture_locate_all_match(Head(call[t].results)))

Anulus_locate_all_push(t) ==
    /\ call[t].results # << >>
    /\ LoopPush(t, "Anulus", Anulus_locate_all_match(Head(call[t].results)))

\* the loop is over: locate_all returns locations
Locate_all_return(t) ==
    /\ pc[t] = "loop"
    /\ call[t].results = << >>
    /\ call' = [call EXCEPT ![t].ret = call[t].locations,
                            ![t].status = "returned"]
    /\ pc' = [pc EXCEPT ![t] = "done"]
    /\ region' = Borrow(region)
    /\ UNCHANGED ctor

\* the caller has taken the outcome and may call again
Release(t) ==
    /\ pc[t] = "done"
    /\ pc' = [pc EXCEPT ![t] = "idle"]
    /\ call' = [call EXCEPT ![t] = NoCall]
    /\ UNCHANGED << region, ctor >>

\* ------------------------------------------------------------------------
\* Inputs
\* ------------------------------------------------------------------------

SeqsUpTo(S, n) == UNION { [1 .. k -> S] : k \in 0 .. n }

\* vertex lists: the square of scenario 3, a concave pentagon, too few
\* vertices, coinciding and antipodal consecutive vertices
PolygonArgs ==
    { << << 0, 0, 20, 20 >>, << 0, 20, 20, 0 >> >>,
      << << 0, 0, 8, 20, 20 >>, << 0, 20, 6, 20, 0 >> >>,
      << << >>, << >> >>,
      << << 0, 0 >>, << 0, 20 >> >>,
      << << 0, 0 >>, << 0, 0 >> >>,
      << << 0, 0, 20 >>, << 0, 0, 20 >> >>,
      << << 0, 0, 20, 0 >>, << 0, 20, 20, 0 >> >>,
      << << 0, 720, 20 >>, << 0, 0, 20 >> >>,
      << << 0, 360, 20 >>, << 0, 0, 20 >> >>,
      << << 20, 0, 380 >>, << 20, 0, -20 >> >> }

ApertureArgs ==
    { << c[1], c[2], r >> : c \in { << 20, 40 >>, << 0, 0 >> },
                            r \in { -2, 0, 10, 360, 362 } }

AnulusArgs ==
    { << 0, 0, i, o >> : i \in { -2, 0, 4, 10 }, o \in { 4, 10, 360, 362 } }

\* query points: for the polygons the points of scenario 3, the antipode
\* of vertex (0, 0) and two points about the concave vertex; for the
\* apertures the points of scenario 1; for the annuli those of scenario 2
QueryPts ==
    [Polygon |-> { << 10, 10 >>, << 100, 100 >>, << 0, 10 >>, << 360, 0 >>,
                   << 10, 2 >>, << 4, 10 >> },
     Aperture |-> { << 20, 40 >>, << 20, 49 >>, << 20, 50 >>, << 20, 52 >>,
                    << 7, 0 >> },
     Anulus |-> { << 7, 0 >>, << 2, 0 >>, << 4, 0 >>, << 12, 0 >>, << 9, 0 >>,
                  << 0, 7 >> }]

\* the two vectors of a batch of points; cut drops the last entry of one
Columns(b, cut) ==
    LET n == Len(b)
    IN  << [i \in 1 .. (IF cut = "ra" /\ n > 0 THEN n - 1 ELSE n) |-> b[i][1]],
           [i \in 1 .. (IF cut = "dec" /\ n > 0 THEN n - 1 ELSE n) |-> b[i][2]] >>

\* batches of up to n points, of equal lengths or with one vector cut short
BatchesOf(Pts, n) ==
    { Columns(b, cut) : b \in SeqsUpTo(Pts, n), cut \in { "none", "ra", "dec" } }

QueryBatches ==
    [Polygon |-> BatchesOf(QueryPts.Polygon, MaxLen),
     Aperture |-> BatchesOf(QueryPts.Aperture, MaxLen),
     Anulus |-> BatchesOf(QueryPts.Anulus, MaxLen)]

\* the inputs of the concurrent specification
ConcPolygonArgs == { << << 0, 0, 20, 20 >>, << 0, 20, 20, 0 >> >> }

ConcApertureArgs == { << 20, 40, 10 >> }

ConcAnulusArgs == { << 0, 0, 4, 10 >> }

ConcPts ==
    [Polygon |-> { << 10, 10 >>, << 0, 10 >> },
     Aperture |-> { << 20, 40 >>, << 20, 50 >> },
     Anulus |-> { << 7, 0 >>, << 12, 0 >> }]

\* batches of the concurrent callers: none, one or two distinct points
ConcBatchesOf(Pts) ==
    { << << >>, << >> >> }
    \cup { Columns(<< a >>, "none") : a \in Pts }
    \cup { Columns(<< d[1], d[2] >>, "none") :
               d \in { e \in Pts \X Pts : e[1] # e[2] } }

ConcBatches ==
    [Polygon |-> ConcBatchesOf(ConcPts.Polygon),
     Aperture |-> ConcBatchesOf(ConcPts.Aperture),
     Anulus |-> ConcBatchesOf(ConcPts.Anulus)]

\* ------------------------------------------------------------------------
\* Specifications
\* ------------------------------------------------------------------------

Step(T, PArgs, ApArgs, AnArgs, Pts, Batches) ==
    \/ \E a \in PArgs : New_Polygon(a[1], a[2])
    \/ \E a \in ApArgs : New_Aperture(a[1], a[2], a[3])
    \/ \E a \in AnArgs : New_Anulus(a[1], a[2], a[3], a[4])
    \/ \E t \in T : \E q \in Pts.Polygon : Call_Polygon_is_inside(t, q[1], q[2])
    \/ \E t \in T : \E q \in Pts.Aperture : Call_Aperture_is_inside(t, q[1], q[2])
    \/ \E t \in T : \E q \in Pts.Anulus : Call_Anulus_is_inside(t, q[1], q[2])
    \/ \E t \in T : \E b \in Batches.Polygon : Call_Polygon_locate_all(t, b[1], b[2])
    \/ \E t \in T : \E b \in Batches.Aperture : Call_Aperture_locate_all(t, b[1], b[2])
    \/ \E t \in T : \E b \in Batches.Anulus : Call_Anulus_locate_all(t, b[1], b[2])
    \/ \E t \in T : Polygon_locate_all_push(t)
    \/ \E t \in T : Aperture_locate_all_push(t)
    \/ \E t \in T : Anulus_locate_all_push(t)
    \/ \E t \in T : Locate_all_return(t)
    \/ \E t \in T : Release(t)

\* one caller, the full input sets
Next == Step({ 1 }, PolygonArgs, ApertureArgs, AnulusArgs, QueryPts, QueryBatches)

Spec == Init /\ [][Next]_vars

\* NCallers callers interleaving on one region
NextConc ==
    Step(Callers, ConcPolygonArgs, ConcApertureArgs, ConcAnulusArgs,
         ConcPts, ConcBatches)

SpecConc == Init /\ [][NextConc]_vars

\* ------------------------------------------------------------------------
\* Properties
\* ------------------------------------------------------------------------

\* the single-point query of the class of region r
IsInsideOf(r, ra, dec) ==
    CASE r.kind = "Polygon" -> Polygon_is_inside(r, ra, dec)
      [] r.kind = "Aperture" -> Aperture_is_inside(r, ra, dec)
      [] r.kind = "Anulus" -> Anulus_is_inside(r, ra, dec)

\* the engine's classification of a point against region r
CoreOf(r, ra, dec) ==
    CASE r.kind = "Polygon" -> SphericalPolygon_locate_point(r.polygon, ra, dec)
      [] r.kind = "Aperture" -> SphericalAperture_locate_point(r.aperture, ra, dec)
      [] r.kind = "Anulus" -> SphericalAnulus_locate_point(r.anulus, ra, dec)

BatchReturned(c) == c.method = "locate_all" /\ c.status = "returned"

SingleReturned(c) == c.method = "is_inside" /\ c.status = "returned"

\* C1: locate_all on equal-length inputs returns a sequence of the input's
\* length whose i-th element is what is_inside returns on (ra[i], dec[i]),
\* for each of the three classes.
C1_LocateAllElementwise ==
    \A t \in Callers :
        (BatchReturned(call[t]) /\ Len(call[t].ra) = Len(call[t].dec)) =>
            /\ Len(call[t].ret) = Len(call[t].ra)
            /\ \A i \in 1 .. Len(call[t].ret) :
                   call[t].ret[i] = IsInsideOf(region, call[t].ra[i], call[t].dec[i])

C1_Witness ==
    \E t \in Callers :
        /\ BatchReturned(call[t])
        /\ Len(call[t].ret) = 2
        /\ call[t].ret[1] # call[t].ret[2]

\* C2: locate_all on inputs of different lengths fails with LengthMismatch
\* and hands the caller no result sequence, for each of the three classes.
C2_LengthMismatchFails ==
    \A t \in Callers :
        (call[t].method = "locate_all" /\ Len(call[t].ra) # Len(call[t].dec)) =>
            /\ pc[t] = "done"
            /\ call[t].status = "panicked"
            /\ call[t].err = "LengthMismatch"
            /\ call[t].ret = << >>
            /\ call[t].locations = << >>

C2_Witness ==
    \E t \in Callers :
        /\ region.kind = "Anulus"
        /\ call[t].method = "locate_all"
        /\ Len(call[t].ra) = 2
        /\ Len(call[t].dec) = 1
        /\ call[t].status = "panicked"

\* the same point of the sphere (right ascension modulo 360 degrees)
SamePoint(a, b) == a[2] = b[2] /\ (a[1] - b[1]) % 720 = 0

\* diametrically opposite points
AntipodalPoints(a, b) == a[2] = 0 - b[2] /\ (a[1] - b[1]) % 720 = 360

\* some consecutive pair of the vertex list, last to first included,
\* coincides or is antipodal
HasDegeneratePair(ras, decs) ==
    \E i \in 1 .. Len(ras) :
        LET j == IF i = Len(ras) THEN 1 ELSE i + 1
            a == << ras[i], decs[i] >>
            b == << ras[j], decs[j] >>
        IN  SamePoint(a, b) \/ AntipodalPoints(a, b)

\* C3: constructing a Polygon from fewer than 3 vertices fails with
\* InsufficientVertices, from a vertex list with a coinciding or antipodal
\* consecutive pair with DegenerateEdge; the failure reaches the caller and
\* no Polygon object exists afterwards.
C3_PolygonConstructionFails ==
    ctor.class = "Polygon" =>
        /\ Len(ctor.ra) < 3 =>
               /\ ctor.status = "panicked"
               /\ ctor.err = "InsufficientVertices"
               /\ region = NoRegion
        /\ (Len(ctor.ra) >= 3 /\ HasDegeneratePair(ctor.ra, ctor.dec)) =>
               /\ ctor.status = "panicked"
               /\ ctor.err = "DegenerateEdge"
               /\ region = NoRegion
        /\ ctor.status = "panicked" => region = NoRegion

C3_Witness ==
    /\ ctor.class = "Polygon"
    /\ ctor.ra = << 0, 0, 20, 0 >>
    /\ ctor.dec = << 0, 20, 20, 0 >>
    /\ ctor.err = "DegenerateEdge"
    /\ region = NoRegion

\* C4: an Aperture is constructed only for 0 < radius <= 180 degrees and an
\* Anulus only for 0 <= inner < outer <= 180 degrees; any other radii fail
\* with InvalidRadius (a radius out of range) or InnerNotLessThanOuter
\* (inner >= outer) and leave no region object.
C4_RadiiValidated ==
    /\ ctor.class = "Aperture" =>
           LET r == ctor.radii[1]
           IN  IF 0 < r /\ r <= 360
               THEN ctor.status = "returned" /\ region.kind = "Aperture"
               ELSE /\ ctor.status = "panicked"
                    /\ ctor.err = "InvalidRadius"
                    /\ region = NoRegion
    /\ ctor.class = "Anulus" =>
           LET i == ctor.radii[1]
               o == ctor.radii[2]
           IN  IF 0 <= i /\ i < o /\ o <= 360
               THEN ctor.status = "returned" /\ region.kind = "Anulus"
               ELSE /\ ctor.status = "panicked"
                    /\ ctor.err \in { "InvalidRadius", "InnerNotLessThanOuter" }
                    /\ ctor.err = "InvalidRadius" =>
                           (i < 0 \/ i > 360 \/ o < 0 \/ o > 360)
                    /\ ctor.err = "InnerNotLessThanOuter" => i >= o
                    /\ region = NoRegion

C4_Witness ==
    /\ ctor.class = "Anulus"
    /\ ctor.radii = << 10, 4 >>
    /\ ctor.err = "InnerNotLessThanOuter"
    /\ region = NoRegion

\* C5: an aperture query returns Edge when the separation from the centre is
\* within epsilon of the radius, otherwise Inside when it is below the radius,
\* otherwise Outside; the boundary test comes first.  Centre (10, 20), radius
\* 5 degrees: (10, 20) is Inside, (10, 26) Outside, (10, 25) Edge.
C5_ApertureClassification ==
    \A t \in Callers :
        (region.kind = "Aperture" /\ SingleReturned(call[t])) =>
            LET ra  == call[t].ra[1]
                dec == call[t].dec[1]
                sep == Separation(region.aperture.center, << ra, dec >>)
                r   == region.aperture.radius
                res == call[t].ret[1]
            IN  /\ res \in PointResult
                /\ res = IF Abs(sep - r) <= Epsilon THEN PR_Edge
                         ELSE IF sep < r THEN PR_Inside
                         ELSE PR_Outside
                /\ (region.aperture.center = << 20, 40 >> /\ r = 10 /\ ra = 20) =>
                       /\ dec = 40 => res = PR_Inside
                       /\ dec = 52 => res = PR_Outside
                       /\ dec = 50 => res = PR_Edge
                       /\ dec = 49 => res = PR_Edge

C5_Witness ==
    \E t \in Callers :
        /\ region.kind = "Aperture"
        /\ region.aperture.center = << 20, 40 >>
        /\ region.aperture.radius = 10
        /\ SingleReturned(call[t])
        /\ call[t].ra = << 20 >>
        /\ call[t].dec = << 49 >>
        /\ call[t].ret = << PR_Edge >>

\* C6: an annulus query returns Edge when the separation is within epsilon
\* of the inner or the outer radius, otherwise Inside when it is strictly
\* between them, otherwise Outside.  Centre (0, 0), inner 2, outer 5 degrees:
\* separation 3.5 is Inside, 1 Outside, 2 Edge, 6 Outside.
C6_AnulusClassification ==
    \A t \in Callers :
        (region.kind = "Anulus" /\ SingleReturned(call[t])) =>
            LET ra  == call[t].ra[1]
                dec == call[t].dec[1]
                sep == Separation(region.anulus.center, << ra, dec >>)
                ri  == region.anulus.inner
                ro  == region.anulus.outer
                res == call[t].ret[1]
            IN  /\ res \in PointResult
                /\ res = IF Abs(sep - ri) <= Epsilon \/ Abs(sep - ro) <= Epsilon
                         THEN PR_Edge
                         ELSE IF ri < sep /\ sep < ro THEN PR_Inside
                         ELSE PR_Outside
                /\ (region.anulus.center = << 0, 0 >> /\ ri = 4 /\ ro = 10 /\ dec = 0) =>
                       /\ ra = 7 => res = PR_Inside
                       /\ ra = 2 => res = PR_Outside
                       /\ ra = 4 => res = PR_Edge
                       /\ ra = 12 => res = PR_Outside
                       /\ ra = 9 => res = PR_Edge

C6_Witness ==
    \E t \in Callers :
        /\ region.kind = "Anulus"
        /\ region.anulus.inner = 4
        /\ region.anulus.outer = 10
        /\ SingleReturned(call[t])
        /\ call[t].ra = << 2 >>
        /\ call[t].dec = << 0 >>
        /\ call[t].ret = << PR_Outside >>

\* point i of a finished polygon query is the exact antipode of a vertex
AtVertexAntipode(c, i) ==
    \E k \in 1 .. Len(region.polygon.verts) :
        AntipodalPoints(<< c.ra[i], c.dec[i] >>, region.polygon.verts[k])

\* C7: a polygon query at the exact antipode of a polygon vertex returns
\* Antipodal, through the single-point and through the batch query.
C7_AntipodeReportsAntipodal ==
    \A t \in Callers :
        (region.kind = "Polygon" /\ call[t].status = "returned") =>
            \A i \in 1 .. Len(call[t].ret) :
                AtVertexAntipode(call[t], i) =>
                    call[t].ret[i] = "PointResult::Antipodal"

SquareVerts == << << 0, 0 >>, << 0, 20 >>, << 20, 20 >>, << 20, 0 >> >>

ConcaveVerts == << << 0, 0 >>, << 0, 20 >>, << 8, 6 >>, << 20, 20 >>, << 20, 0 >> >>

\* C8: for a point that is not the antipode of a vertex, a polygon query
\* returns Edge when the point is within epsilon of an edge's great circle
\* and within the edge's arc, and otherwise follows the even-odd rule on arc
\* crossings, concave polygons included.  Vertices (0,0), (0,10), (10,10),
\* (10,0): (5,5) is Inside, (50,50) Outside, (0,5) Edge.
C8_PolygonClassification ==
    \A t \in Callers :
        (/\ region.kind = "Polygon"
         /\ SingleReturned(call[t])
         /\ ~AtVertexAntipode(call[t], 1)) =>
            LET ra   == call[t].ra[1]
                dec  == call[t].dec[1]
                p    == ToVec(<< ra, dec >>)
                poly == region.polygon
                res  == call[t].ret[1]
            IN  /\ res = IF \E i \in 1 .. Len(poly.edges) : OnEdge(poly.edges[i], p)
                         THEN PR_Edge
                         ELSE IF Crossings(poly, p) % 2 = 1 THEN PR_Inside
                         ELSE PR_Outside
                /\ poly.verts = SquareVerts =>
                       /\ (ra = 10 /\ dec = 10) => res = PR_Inside
                       /\ (ra = 100 /\ dec = 100) => res = PR_Outside
                       /\ (ra = 0 /\ dec = 10) => res = PR_Edge
                /\ poly.verts = ConcaveVerts =>
                       /\ (ra = 10 /\ dec = 10) => res = PR_Outside
                       /\ (ra = 10 /\ dec = 2) => res = PR_Inside
                       /\ (ra = 4 /\ dec = 10) => res = PR_Inside
                       /\ (ra = 0 /\ dec = 10) => res = PR_Edge

C8_Witness ==
    \E t \in Callers :
        /\ region.kind = "Polygon"
        /\ region.polygon.verts = ConcaveVerts
        /\ SingleReturned(call[t])
        /\ call[t].ra = << 10 >>
        /\ call[t].dec = << 10 >>
        /\ call[t].ret = << PR_Outside >>

\* the region as the recorded constructor call built it
Fresh ==
    CASE ctor.class = "Polygon" -> Polygon_new(ctor.ra, ctor.dec).val
      [] ctor.class = "Aperture" ->
             Aperture_new(ctor.ra[1], ctor.dec[1], ctor.radii[1]).val
      [] ctor.class = "Anulus" ->
             Anulus_new(ctor.ra[1], ctor.dec[1], ctor.radii[1], ctor.radii[2]).val

\* what the query of call c returns when it runs alone on region r
Alone(r, c) == [i \in 1 .. Len(c.ra) |-> IsInsideOf(r, c.ra[i], c.dec[i])]

IsPrefix(s, u) == Len(s) <= Len(u) /\ \A i \in 1 .. Len(s) : s[i] = u[i]

QueriesAsIfAlone ==
    region.kind # "None" =>
        \A t \in Callers :
            /\ call[t].status = "returned" => call[t].ret = Alone(Fresh, call[t])
            /\ call[t].status = "running" =>
                   IsPrefix(call[t].locations, Alone(Fresh, call[t]))

\* C9: once constructed the region never changes, and under any
\* interleaving of the callers' single-point and batch queries every query
\* returns what it returns when run alone on the freshly constructed region.
C9_ImmutableUnderConcurrency ==
    /\ [][region.kind # "None" => region' = region]_vars
    /\ [](region.kind # "None" => region = Fresh)
    /\ []QueriesAsIfAlone

C9_Witness ==
    /\ region.kind = "Aperture"
    /\ pc[1] = "loop"
    /\ pc[2] = "loop"
    /\ Len(call[1].locations) = 1
    /\ Len(call[2].locations) = 1
    /\ call[1].locations # call[2].locations
    /\ Len(call[1].results) = 1

\* the translation PointLocation -> PointResult
Translation(v) ==
    CASE v = PL_Inside -> PR_Inside
      [] v = PL_Outside -> PR_Outside
      [] v = PL_OnBoundary -> PR_Edge

\* C10: every one of the six query methods reports the engine's
\* classification by the same total, injective translation (Inside ->
\* Inside, Outside -> Outside, OnBoundary -> Edge): distinct classifications
\* are never merged, single-point and batch queries report alike.
C10_TranslationUniform ==
    \A t \in Callers :
        call[t].status \in { "returned", "running" } =>
            LET out  == IF call[t].status = "returned"
                        THEN call[t].ret ELSE call[t].locations
                core == [i \in 1 .. Len(out) |->
                            CoreOf(region, call[t].ra[i], call[t].dec[i])]
            IN  /\ \A i \in 1 .. Len(out) : out[i] = Translation(core[i])
                /\ \A i, j \in 1 .. Len(out) :
                       core[i] # core[j] => out[i] # out[j]

C10_Witness ==
    \E t \in Callers :
        /\ region.kind = "Polygon"
        /\ BatchReturned(call[t])
        /\ call[t].ret = << PR_Edge, PR_Inside >>

====
